---- MODULE Spec2Model ----
(***************************************************************************)
(* Model of examples/vr_sample_train/vr_sample_train.ino: the serial       *)
(* command loop of the VoiceRecognition "train" sample.  Bytes are the     *)
(* integers 0..255; the command buffer cmd is a function on                *)
(* 0..CMD_BUF_LEN-1; a pointer into cmd (paraAddr) is its offset.          *)
(***************************************************************************)
EXTENDS Integers, Sequences, FiniteSets, TLC

(***************************************************************************)
(* Program constants                                                       *)
(***************************************************************************)
CMD_BUF_LEN == 64 + 1

CMD_NUM == 8

\* the idle limit of receiveCMD: millis() - start_millis > 100
Timeout == 100

TAB == 9

LF == 10

CR == 13

SPACE == 32

\* the character '0'
ZERO == 48

\* uint8_t arithmetic
U8(n) == n % 256

\* the command list table: "train" "load" "clear" "vr" "record" "sigtrain"
\* "getsig" "test" (the bytes compareCMD reads are the first cmdLen[i])
cmdList ==
  << <<116, 114, 97, 105, 110>>,
     <<108, 111, 97, 100>>,
     <<99, 108, 101, 97, 114>>,
     <<118, 114>>,
     <<114, 101, 99, 111, 114, 100>>,
     <<115, 105, 103, 116, 114, 97, 105, 110>>,
     <<103, 101, 116, 115, 105, 103>>,
     <<116, 101, 115, 116>> >>

cmdLen == <<5, 4, 5, 2, 6, 8, 6, 4>>

\* the handler table, entry i bound to cmdList[i]
cmdFunction ==
  <<"cmdTrain", "cmdLoad", "cmdClear", "cmdVR", "cmdRecord", "cmdSigTrain",
    "cmdGetSig", "cmdTest">>

(***************************************************************************)
(* Pure functions of the command analyser.  Each takes the buffer c it     *)
(* reads (the global cmd in the program).                                  *)
(***************************************************************************)

\* the test  x != '\t' && x != ' ' && x != '\r' && x != '\n'
NotDelim(b) == b /= TAB /\ b /= SPACE /\ b /= CR /\ b /= LF

\* the inner  while(cmd[i] is no delimiter) i++;  the index it stops at
RECURSIVE SkipPara(_, _)
SkipPara(c, i) == IF NotDelim(c[i]) THEN SkipPara(c, i + 1) ELSE i

\* checkCMD: 0 when every byte of cmd[0..len) is printable or one of
\* tab, space, CR, LF; -1 otherwise
checkCMD(c, len) ==
  IF \A i \in 0..(len - 1) :
       \/ (c[i] > 31 /\ c[i] < 127)
       \/ c[i] = TAB \/ c[i] = SPACE \/ c[i] = CR \/ c[i] = LF
  THEN 0 ELSE -1

\* checkParaNum: the loop  for(i=0; i<len; ) { ... i++; }
RECURSIVE ParaNumFrom(_, _, _, _)
ParaNumFrom(c, len, i, cnt) ==
  IF i >= len THEN cnt
  ELSE IF NotDelim(c[i])
       THEN ParaNumFrom(c, len, SkipPara(c, i) + 1, cnt + 1)
       ELSE ParaNumFrom(c, len, i + 1, cnt)

checkParaNum(c, len) == ParaNumFrom(c, len, 0, 0)

\* findPara: the loop  for(i=0; i<len; ) { dt = cmd[i]; ... }.  The result
\* is [len |-> the return value, addr |-> *addr after the call]; old is
\* *addr before it, kept when nothing is found.
RECURSIVE FindParaFrom(_, _, _, _, _, _)
FindParaFrom(c, len, paraIndex, i, cnt, old) ==
  IF i >= len THEN [len |-> -1, addr |-> old]
  ELSE IF c[i] /= TAB /\ c[i] /= SPACE
       THEN IF paraIndex = cnt + 1
            THEN [len |-> SkipPara(c, i) - i, addr |-> i]
            ELSE FindParaFrom(c, len, paraIndex, SkipPara(c, i), cnt + 1, old)
       ELSE FindParaFrom(c, len, paraIndex, i + 1, cnt, old)

findPara(c, len, paraIndex, old) == FindParaFrom(c, len, paraIndex, 0, 0, old)

\* compareCMD: 0 when equal, -1 when not; res is a uint8_t
RECURSIVE CompareFrom(_, _, _, _)
CompareFrom(para1, para2, len, i) ==
  IF i > len THEN 0
  ELSE IF U8(para2[i] - para1[i]) /= 0 /\ U8(para2[i] - para1[i]) /= 32
       THEN -1
       ELSE IF U8(para1[i] - para2[i]) /= 0 /\ U8(para1[i] - para2[i]) /= 32
            THEN -1
            ELSE CompareFrom(para1, para2, len, i + 1)

compareCMD(para1, para2, len) == CompareFrom(para1, para2, len, 1)

\* the bytes of c at offsets addr .. addr+n-1, as a sequence
Span(c, addr, n) == [k \in 1..n |-> c[addr + k - 1]]

\* the C string at cmd+addr as atoi reads it: the bytes up to the end of
\* the buffer
CStr(c, addr) == Span(c, addr, CMD_BUF_LEN - addr)

\* atoi: skip white space, an optional sign, then decimal digits
IsSpace(b) == b = SPACE \/ (b >= 9 /\ b <= 13)

IsDigit(b) == b >= ZERO /\ b <= ZERO + 9

RECURSIVE AtoiDigits(_, _, _)
AtoiDigits(s, k, acc) ==
  IF k <= Len(s) /\ IsDigit(s[k])
  THEN AtoiDigits(s, k + 1, acc * 10 + (s[k] - ZERO))
  ELSE acc

RECURSIVE AtoiFrom(_, _)
AtoiFrom(s, k) ==
  IF k > Len(s) THEN 0
  ELSE IF IsSpace(s[k]) THEN AtoiFrom(s, k + 1)
  ELSE IF s[k] = 45 THEN 0 - AtoiDigits(s, k + 1, 0)
  ELSE IF s[k] = 43 THEN AtoiDigits(s, k + 1, 0)
  ELSE AtoiDigits(s, k, 0)

atoi(s) == AtoiFrom(s, 1)

(***************************************************************************)
(* The Device Adapter (class VR, not part of this sketch).  A reply is the  *)
(* int an operation returns and the bytes it wrote to the front of buf.    *)
(***************************************************************************)
Replies ==
  { [ret |-> -1, data |-> <<>>],
    [ret |-> 0, data |-> <<>>],
    [ret |-> 5, data |-> <<2, 5, 0, 7, 254>>],
    [ret |-> 5, data |-> <<1, 5, 0, 7, 254>>],
    [ret |-> 2, data |-> <<1, 9>>] }

\* buf after an operation wrote data to its front
Overlay(old, data) ==
  [k \in 1..(IF Len(old) > Len(data) THEN Len(old) ELSE Len(data)) |->
     IF k <= Len(data) THEN data[k] ELSE old[k]]

\* one call of a Device Adapter operation, as the handlers make it
Call(op, recs, off, n) == [op |-> op, recs |-> recs, off |-> off, n |-> n]

(***************************************************************************)
(* Handlers.  st is the globals a handler reads and writes:                *)
(* [records, paraAddr, buf]; rep is the reply of the Device Adapter        *)
(* operation the handler delegates to, if it does.  The result is          *)
(* [ret, records, paraAddr, buf, adapter, diag, parsed]: the return value, *)
(* the globals after the call, the adapter calls made, the diagnostics     *)
(* printed and the record parses done (offset and length of the token as   *)
(* findPara gave them, the uint8_t stored, and whether it was accepted).   *)
(***************************************************************************)
Result(ret, recs, addr, bufv, calls, prints, parses) ==
  [ret |-> ret, records |-> recs, paraAddr |-> addr, buf |-> bufv,
   adapter |-> calls, diag |-> prints, parsed |-> parses]

\* a test that takes every 0 for a failed parse
BadRecordAnyZero(val, first) == val = 0

\* the test  records[k] == 0 && *paraAddr != '0'
BadRecord(val, first) == val = 0 /\ first /= ZERO

\* records[0..n-1] as the sequence passed to the adapter
RecordList(recs, n) == [k \in 1..n |-> recs[k - 1]]

\* one pass of the record loops: atoi((char *)paraAddr) stored in a uint8_t
\* and tested, for the parameter f that findPara gave
ParseAt(c, f) ==
  [off |-> f.addr, n |-> f.len, val |-> U8(atoi(CStr(c, f.addr))),
   ok |-> ~BadRecord(U8(atoi(CStr(c, f.addr))), c[f.addr])]

\* the loop  for(i=2; i<=paraNum; i++) { findPara; atoi; test }  of
\* cmdTrain, cmdLoad and cmdRecord, from index i on (ParseRecords), and
\* what follows the parse p of parameter i (RecordsWith)
RECURSIVE ParseRecords(_, _, _, _, _, _, _)
RECURSIVE RecordsWith(_, _, _, _, _, _, _)
ParseRecords(c, len, i, paraNum, recs, addr, parses) ==
  IF i > paraNum
  THEN [ok |-> TRUE, records |-> recs, paraAddr |-> addr, parsed |-> parses]
  ELSE RecordsWith(c, len, i, paraNum, recs, parses,
                   ParseAt(c, findPara(c, len, i, addr)))

RecordsWith(c, len, i, paraNum, recs, parses, p) ==
  IF ~p.ok
  THEN [ok |-> FALSE, records |-> [recs EXCEPT ![i - 2] = p.val],
        paraAddr |-> p.off, parsed |-> Append(parses, p)]
  ELSE ParseRecords(c, len, i + 1, paraNum, [recs EXCEPT ![i - 2] = p.val],
                    p.off, Append(parses, p))

\* the single parse of cmdSigTrain and cmdGetSig: parameter 2 into
\* records[0]
OneWith(recs, p) ==
  [ok |-> p.ok, records |-> [recs EXCEPT ![0] = p.val], paraAddr |-> p.off,
   parsed |-> <<p>>]

ParseOne(c, len, recs, addr) == OneWith(recs, ParseAt(c, findPara(c, len, 2, addr)))

Fail(st) == Result(-1, st.records, st.paraAddr, st.buf, <<>>, <<>>, <<>>)

\* a handler's  return -1  from its record loop, records partly written
FailParsed(st, p) ==
  Result(-1, p.records, p.paraAddr, st.buf, <<>>, <<>>, p.parsed)

\* cmdTrain after its record loop gave p
TrainParsed(paraNum, st, rep, p) ==
  IF ~p.ok THEN FailParsed(st, p)
  ELSE Result(0, p.records, p.paraAddr, Overlay(st.buf, rep.data),
              <<Call("train", RecordList(p.records, paraNum - 1), -1, 0)>>,
              IF rep.ret >= 0 THEN <<>> ELSE <<"Train failed.">>,
              p.parsed)

cmdTrain(c, len, paraNum, st, rep) ==
  IF paraNum < 2 \/ paraNum > 8 THEN Fail(st)
  ELSE TrainParsed(paraNum, st, rep,
                   ParseRecords(c, len, 2, paraNum, st.records, st.paraAddr, <<>>))

\* cmdLoad after its record loop gave p
LoadParsed(paraNum, st, rep, p) ==
  IF ~p.ok THEN FailParsed(st, p)
  ELSE Result(0, p.records, p.paraAddr, Overlay(st.buf, rep.data),
              <<Call("load", RecordList(p.records, paraNum - 1), -1, 0)>>,
              IF rep.ret >= 0 THEN <<>> ELSE <<"Load failed.">>,
              p.parsed)

cmdLoad(c, len, paraNum, st, rep) ==
  IF paraNum < 2 \/ paraNum > 8 THEN Fail(st)
  ELSE LoadParsed(paraNum, st, rep,
                  ParseRecords(c, len, 2, paraNum, st.records, st.paraAddr, <<>>))

cmdClear(c, len, paraNum, st, rep) ==
  IF paraNum /= 1 THEN Fail(st)
  ELSE Result(0, st.records, st.paraAddr, st.buf,
              <<Call("clear", <<>>, -1, 0)>>,
              IF rep.ret = 0 THEN <<"Recognizer cleared.">> ELSE <<>>,
              <<>>)

cmdVR(c, len, paraNum, st, rep) ==
  IF paraNum /= 1 THEN Fail(st)
  ELSE Result(IF rep.ret <= 0 THEN -1 ELSE 0,
              st.records, st.paraAddr, Overlay(st.buf, rep.data),
              <<Call("checkRecognizer", <<>>, -1, 0)>>, <<>>, <<>>)

\* cmdRecord after its record loop gave p
RecordParsed(paraNum, st, rep, p) ==
  IF ~p.ok THEN FailParsed(st, p)
  ELSE Result(0, p.records, p.paraAddr, Overlay(st.buf, rep.data),
              <<Call("checkRecord", RecordList(p.records, paraNum - 1), -1, 0)>>,
              IF rep.ret >= 0 THEN <<>> ELSE <<"Check record failed.">>,
              p.parsed)

cmdRecord(c, len, paraNum, st, rep) ==
  IF paraNum = 1
  THEN Result(0, st.records, st.paraAddr, Overlay(st.buf, rep.data),
              <<Call("checkRecord", <<>>, -1, 0)>>,
              IF rep.ret >= 0 THEN <<>> ELSE <<"Check record failed.">>,
              <<>>)
  ELSE IF paraNum < 9
  THEN RecordParsed(paraNum, st, rep,
                    ParseRecords(c, len, 2, paraNum, st.records, st.paraAddr, <<>>))
  ELSE Fail(st)

\* the call of trainWithSignature: first is what findPara(len, 3, &paraAddr)
\* gave, last what findPara(len, paraNum, &lastAddr) gave, and
\* sig_len = last.len + (lastAddr - paraAddr)
SigTrainSpan(st, rep, p, first, last) ==
  Result(0, p.records, first.addr, Overlay(st.buf, rep.data),
         <<Call("trainWithSignature", <<p.records[0]>>, first.addr,
                last.len + (last.addr - first.addr))>>,
         IF rep.ret >= 0 THEN <<>> ELSE <<"Train failed.">>,
         p.parsed)

\* cmdSigTrain after the parse p of parameter 2
SigTrainParsed(c, len, paraNum, st, rep, p) ==
  IF ~p.ok THEN FailParsed(st, p)
  ELSE SigTrainSpan(st, rep, p, findPara(c, len, 3, p.paraAddr),
                    findPara(c, len, paraNum, -1))

cmdSigTrain(c, len, paraNum, st, rep) ==
  IF paraNum < 2 THEN Fail(st)
  ELSE SigTrainParsed(c, len, paraNum, st, rep,
                      ParseOne(c, len, st.records, st.paraAddr))

\* cmdGetSig after the parse p of parameter 2
GetSigParsed(st, rep, p) ==
  IF ~p.ok THEN FailParsed(st, p)
  ELSE Result(0, p.records, p.paraAddr, Overlay(st.buf, rep.data),
              <<Call("checkSignature", <<p.records[0]>>, -1, 0)>>,
              IF rep.ret = 0 THEN <<"Signature isn't set.">>
              ELSE IF rep.ret > 0 THEN <<"Signature:">>
              ELSE <<"Get sig error.">>,
              p.parsed)

cmdGetSig(c, len, paraNum, st, rep) ==
  IF paraNum /= 2 THEN Fail(st)
  ELSE GetSigParsed(st, rep, ParseOne(c, len, st.records, st.paraAddr))

cmdTest(c, len, paraNum, st, rep) ==
  Result(0, st.records, st.paraAddr, st.buf, <<>>,
         <<"TEST is not supported.">>, <<>>)

\* the call  cmdFunction[i](len, paraNum)
Handler(i, c, len, paraNum, st, rep) ==
  CASE i = 1 -> cmdTrain(c, len, paraNum, st, rep)
    [] i = 2 -> cmdLoad(c, len, paraNum, st, rep)
    [] i = 3 -> cmdClear(c, len, paraNum, st, rep)
    [] i = 4 -> cmdVR(c, len, paraNum, st, rep)
    [] i = 5 -> cmdRecord(c, len, paraNum, st, rep)
    [] i = 6 -> cmdSigTrain(c, len, paraNum, st, rep)
    [] i = 7 -> cmdGetSig(c, len, paraNum, st, rep)
    [] OTHER -> cmdTest(c, len, paraNum, st, rep)

\* a table search that compares the length only
MatchesLengthOnly(c, addr, paraLen) == { i \in 1..CMD_NUM : paraLen = cmdLen[i] }

\* the table entries the loop of loop() accepts for a first parameter of
\* length paraLen at offset addr; the loop takes the least and breaks
Matches(c, addr, paraLen) ==
  { i \in 1..CMD_NUM :
      /\ paraLen = cmdLen[i]
      /\ compareCMD(Span(c, addr, paraLen), cmdList[i], paraLen) = 0 }

Least(S) == CHOOSE i \in S : \A j \in S : i <= j

(***************************************************************************)
(* Decoders: the print functions, as the fields they print.  b is the      *)
(* front of buf written so far; the rest of the global buf[200] is 0.      *)
(***************************************************************************)
\* buf[k]
Byte(b, k) == IF k < Len(b) THEN b[k + 1] ELSE 0

\* the test  x & (1<<i)
BitSet(x, i) == (x \div (2 ^ i)) % 2 = 1

\* printSignature: buf[i] written as it is when  buf[i]>0x19 && buf[i]<0x7F,
\* in brackets as hex otherwise, for i = from .. from+n-1
printSignature(b, from, n) ==
  [k \in 1..n |->
     IF Byte(b, from + k - 1) > 25 /\ Byte(b, from + k - 1) < 127
     THEN <<"chr", Byte(b, from + k - 1)>>
     ELSE <<"hex", Byte(b, from + k - 1)>>]

\* a group column that prints the tag of a user group as it is
GroupVRUnmasked(tag) ==
  IF tag = 255 THEN [mode |-> "none", id |-> -1]
  ELSE IF BitSet(tag, 7) THEN [mode |-> "user", id |-> tag]
  ELSE [mode |-> "system", id |-> tag]

\* the group column of printVR:  buf[0] == 0xFF,  buf[0]&0x80,
\* buf[0]&(~0x80)
GroupVR(tag) ==
  IF tag = 255 THEN [mode |-> "none", id |-> -1]
  ELSE IF BitSet(tag, 7) THEN [mode |-> "user", id |-> tag - 128]
  ELSE [mode |-> "system", id |-> tag]

printVR(b) ==
  [index |-> Byte(b, 2), group |-> GroupVR(Byte(b, 0)), record |-> Byte(b, 1),
   signature |-> IF Byte(b, 3) > 0 THEN printSignature(b, 4, Byte(b, 3)) ELSE <<>>]

\* the group line of printCheckRecognizer:  buf[10] == 0xFF,  buf[10]&0x80,
\* buf[10]&0x7F
GroupCheckRecognizer(tag) ==
  IF tag = 255 THEN [mode |-> "none", id |-> -1]
  ELSE IF BitSet(tag, 7) THEN [mode |-> "user", id |-> tag % 128]
  ELSE [mode |-> "system", id |-> tag]

printCheckRecognizer(b) ==
  [all |-> Byte(b, 8), valid |-> Byte(b, 0),
   group |-> GroupCheckRecognizer(Byte(b, 10)),
   slots |-> [i \in 0..6 |->
                IF Byte(b, i + 1) = 255
                THEN <<255, IF Byte(b, 10) = 255 THEN "Unloaded" ELSE "Not Set">>
                ELSE <<Byte(b, i + 1),
                       IF BitSet(Byte(b, 9), i) THEN "Valid" ELSE "Untrained">>]]

\* the switch of printCheckRecord
RecordStatus(s) ==
  CASE s = 1 -> "Trained"
    [] s = 0 -> "Untrained"
    [] s = 255 -> "Record value out of range"
    [] OTHER -> "Unknown Stauts"

\* the loop  for(int i=0; i<buf[0]*2; i += 2)  of printCheckRecord
RECURSIVE RecordPairs(_, _)
RecordPairs(b, i) ==
  IF i < Byte(b, 0) * 2
  THEN <<<<Byte(b, i + 1), RecordStatus(Byte(b, i + 2))>>>> \o RecordPairs(b, i + 2)
  ELSE <<>>

printCheckRecord(b, num) ==
  [count |-> Byte(b, 0), trained |-> num, pairs |-> RecordPairs(b, 0)]

\* the switch of printLoad
LoadStatus(s) ==
  CASE s = 0 -> "Loaded"
    [] s = 252 -> "Record already in recognizer"
    [] s = 253 -> "Recognizer full"
    [] s = 254 -> "Record untrained"
    [] s = 255 -> "Value out of range"
    [] OTHER -> "Unknown status"

\* the loop  for(int i=0; i<len-1; i += 2)  of printLoad
RECURSIVE LoadPairs(_, _, _)
LoadPairs(b, ln, i) ==
  IF i < ln - 1
  THEN <<<<Byte(b, i + 1), LoadStatus(Byte(b, i + 2))>>>> \o LoadPairs(b, ln, i + 2)
  ELSE <<>>

\* printLoad(buf, len), len a uint8_t: count -1 stands for no count printed
printLoad(b, ln) ==
  IF ln = 0 THEN [count |-> -1, pairs |-> <<>>]
  ELSE [count |-> Byte(b, 0), pairs |-> LoadPairs(b, ln, 0)]

\* the switch of printTrain
TrainStatus(s) ==
  CASE s = 0 -> "Trained"
    [] s = 254 -> "Train Time Out"
    [] s = 255 -> "Value out of range"
    [] OTHER -> "Unknown status"

\* a loop that takes buf[0] for the number of pairs
RECURSIVE TrainPairsByCount(_, _, _)
TrainPairsByCount(b, ln, i) ==
  IF i < Byte(b, 0) * 2
  THEN <<<<Byte(b, i + 1), TrainStatus(Byte(b, i + 2))>>>>
         \o TrainPairsByCount(b, ln, i + 2)
  ELSE <<>>

\* the loop  for(int i=0; i<len-1; i += 2)  of printTrain
RECURSIVE TrainPairs(_, _, _)
TrainPairs(b, ln, i) ==
  IF i < ln - 1
  THEN <<<<Byte(b, i + 1), TrainStatus(Byte(b, i + 2))>>>> \o TrainPairs(b, ln, i + 2)
  ELSE <<>>

\* printTrain(buf, len), len a uint8_t
printTrain(b, ln) ==
  IF ln = 0 THEN [count |-> -1, pairs |-> <<>>]
  ELSE [count |-> Byte(b, 0), pairs |-> TrainPairs(b, ln, 0)]

\* the switch of printSigTrain
SigTrainStatus(s) ==
  CASE s = 0 -> "Trained"
    [] s = 240 -> "Trained, signature truncate"
    [] s = 254 -> "Train Time Out"
    [] s = 255 -> "Value out of range"
    [] OTHER -> "Unknown status"

\* printSigTrain(buf, len), the fields before the echoed signature
printSigTrain(b, ln) ==
  IF ln = 0 THEN [count |-> -1, pairs |-> <<>>]
  ELSE [count |-> Byte(b, 0),
        pairs |-> <<<<Byte(b, 1), SigTrainStatus(Byte(b, 2))>>>>]

\* what handler call h printed through a decoder, of the reply rep to its
\* adapter call: <<>> when it decoded nothing
Shown(h, rep) ==
  IF h.adapter = <<>> THEN <<>>
  ELSE CASE h.adapter[1].op = "train" /\ rep.ret >= 0 ->
              <<printTrain(h.buf, U8(rep.ret))>>
         [] h.adapter[1].op = "load" /\ rep.ret >= 0 ->
              <<printLoad(h.buf, U8(rep.ret))>>
         [] h.adapter[1].op = "checkRecognizer" /\ rep.ret > 0 ->
              <<printCheckRecognizer(h.buf)>>
         [] h.adapter[1].op = "checkRecord" /\ rep.ret >= 0 ->
              <<printCheckRecord(h.buf, rep.ret)>>
         [] h.adapter[1].op = "trainWithSignature" /\ rep.ret >= 0 ->
              <<printSigTrain(h.buf, U8(rep.ret))>>
         [] h.adapter[1].op = "checkSignature" /\ rep.ret > 0 ->
              <<printSignature(h.buf, 0, rep.ret)>>
         [] OTHER -> <<>>

(***************************************************************************)
(* Bounds of the input the model feeds to the serial line                  *)
(***************************************************************************)
\* record numbers written as decimal tokens: 0..MaxRecord
MaxRecord == 257

\* the most arguments a generated line carries
MaxArgs == 9

\* the longest line over the tokenizer's alphabet (terminator not counted)
MaxTokLine == 4

\* the length of a stream of 0x00 bytes
MaxNul == 5

(***************************************************************************)
(* The serial input: a sequence of <<byte, gap>>, gap the time between the *)
(* arrival of the byte before and of this byte.                            *)
(***************************************************************************)
Upper(s) == [k \in 1..Len(s) |-> IF s[k] >= 97 /\ s[k] <= 122 THEN s[k] - 32 ELSE s[k]]

Capital(s) == [k \in 1..Len(s) |-> IF k = 1 THEN Upper(s)[k] ELSE s[k]]

Spellings(s) == {s, Upper(s), Capital(s)}

\* the decimal text of a natural number, no leading zeros
RECURSIVE Decimal(_)
Decimal(v) == IF v < 10 THEN <<ZERO + v>> ELSE Decimal(v \div 10) \o <<ZERO + (v % 10)>>

\* n copies of the letter a
Fill(n) == [k \in 1..n |-> 97]

\* the arguments " 1 2 ... k"
RECURSIVE Counted(_)
Counted(k) == IF k = 0 THEN <<>> ELSE Counted(k - 1) \o <<SPACE>> \o Decimal(k)

\* argument tokens: 0 00 5 14 abc x 300
ArgTokens ==
  { <<48>>, <<48, 48>>, <<53>>, <<49, 52>>, <<97, 98, 99>>, <<120>>,
    <<51, 48, 48>> }

\* argument lists of at most two tokens, each after one space
ArgLists ==
  {<<>>} \cup { <<SPACE>> \o a : a \in ArgTokens }
         \cup { <<SPACE>> \o a \o <<SPACE>> \o b : a \in ArgTokens, b \in ArgTokens }

\* every sequence over S of length at most n
RECURSIVE SeqsUpTo(_, _)
SeqsUpTo(S, n) ==
  IF n = 0 THEN {<<>>}
  ELSE LET R == SeqsUpTo(S, n - 1)
       IN R \cup { Append(r, x) : r \in { q \in R : Len(q) = n - 1 }, x \in S }

\* s with the byte b put before its position p (p = Len(s)+1: at the end)
Insert(s, p, b) == SubSeq(s, 1, p - 1) \o <<b>> \o SubSeq(s, p, Len(s))

\* bytes outside the character set of a command line
BadBytes == {0, 1, 31, 127, 128, 255}

CommandLines ==
  { s \o a \o <<LF>> :
      s \in UNION { Spellings(cmdList[w]) : w \in 1..CMD_NUM },
      a \in {<<>>, <<SPACE, 48, SPACE, 50, SPACE, 49, 52>>} }
  \cup { cmdList[w] \o a \o e :
           w \in 1..CMD_NUM, a \in ArgLists, e \in {<<LF>>, <<CR, LF>>} }
  \cup { cmdList[w] \o Counted(k) \o <<LF>> : w \in 1..CMD_NUM, k \in 0..MaxArgs }
  \cup { cmdList[w] \o <<SPACE>> \o Decimal(v) \o <<LF>> :
           w \in {1, 7}, v \in 0..MaxRecord }
  \cup { cmdList[w] \o a \o <<LF>> :
           w \in 1..CMD_NUM,
           a \in { <<CR, 53, SPACE, 54>>, <<CR, 53, SPACE, 120>>, <<CR, 120>>,
                   <<SPACE, 48, SPACE, 90, 69, 82, 79>>, <<SPACE, 48, SPACE, SPACE>>,
                   <<SPACE, 48, SPACE, 97, TAB, 98>>,
                   <<SPACE, 53, SPACE, 97, SPACE, CR, 98>> } }

TokenLines == { s \o <<LF>> : s \in SeqsUpTo({97, SPACE, TAB, CR}, MaxTokLine) }

IllegalLines ==
  UNION { { Insert(s, p, b) \o <<LF>> : p \in 1..(Len(s) + 1), b \in BadBytes } :
            s \in {cmdList[3], cmdList[4]} }

LongLines ==
  { Fill(n) \o t :
      n \in {CMD_BUF_LEN - 1, CMD_BUF_LEN},
      t \in {<<LF>>, cmdList[3] \o <<LF>>} }

TwoLines ==
  { a \o b :
      a \in {cmdList[4] \o <<LF>>, cmdList[1] \o <<SPACE, 48, SPACE, 50, SPACE, 49, 52, LF>>},
      b \in {cmdList[3] \o <<LF>>, cmdList[7] \o <<SPACE, 53, LF>>} }

\* every byte on the heels of the one before
Burst(s) == [k \in 1..Len(s) |-> <<s[k], 0>>]

\* a gap g before byte p
Paused(s, p, g) == [k \in 1..Len(s) |-> <<s[k], IF k = p THEN g ELSE 0>>]

\* every byte g after the one before
Paced(s, g) == [k \in 1..Len(s) |-> <<s[k], g>>]

Gaps == {Timeout \div 2, Timeout, Timeout + 1, 2 * Timeout}

\* streams with no terminator: 0x00 bytes, and more letters than cmd holds
Streams ==
  { Paced(s, g) :
      s \in {[k \in 1..MaxNul |-> 0], Fill(CMD_BUF_LEN + 1)},
      g \in {0, Timeout \div 2, Timeout} }

\* lines that arrive slowly
SlowLines ==
  UNION { { Paused(s \o <<LF>>, p, g) : p \in 1..(Len(s) + 1), g \in Gaps } :
            s \in {cmdList[3], cmdList[4]} }
  \cup { Paced(s \o <<LF>>, g) :
           s \in {cmdList[3], cmdList[4]}, g \in {Timeout \div 2, Timeout} }

Inputs ==
  { Burst(s) : s \in CommandLines \cup TokenLines \cup IllegalLines
                     \cup LongLines \cup TwoLines }
  \cup SlowLines
  \cup Streams

\* the arrival patterns: streams, slow lines, lines longer than cmd
Arrivals == Streams \cup SlowLines \cup { Burst(s) : s \in LongLines }

(***************************************************************************)
(* State                                                                   *)
(***************************************************************************)
VARIABLES
  wire,       \* serial bytes not yet read, each with its gap
  due,        \* time until the first byte of wire is in the receive buffer
  pc,         \* where loop() is: "loop", "recv", "dispatch", "poll"
  cmd,        \* uint8_t cmd[CMD_BUF_LEN]
  cmd_cnt,    \* uint8_t cmd_cnt
  elapsed,    \* millis() - start_millis of the running receiveCMD
  len,        \* loop()'s len: what receiveCMD returned
  paraAddr,   \* uint8_t *paraAddr, as an offset into cmd (-1: null)
  records,    \* uint8_t records[7]
  buf,        \* the front of uint8_t buf[200] written so far
  fed,        \* history: the bytes Serial.read() gave the running receiveCMD
  gapSeen,    \* history: millis() - start_millis at its last timeout test
  overlong,   \* history: the buffer overflowed and no '\n' came since
  tail,       \* history: the line returned ends an input that overflowed
  discarded,  \* history: a timeout has dropped a partly assembled line
  called,     \* history: handler calls of this cycle, <<i, len, paraNum>>
  diag,       \* history: diagnostics printed in this cycle
  adapter,    \* history: Device Adapter calls of this cycle
  parsed,     \* history: record parses of this cycle
  answer,     \* history: what the adapter call of this cycle returned
  shown,      \* history: what the decoders printed in this cycle
  order,      \* history: the calls loop() made in this cycle, in order
  sent,       \* history: the bytes of the whole serial input
  served      \* history: where in sent the '\n' of each returned line is

vars ==
  <<wire, due, pc, cmd, cmd_cnt, elapsed, len, paraAddr, records, buf, fed,
    gapSeen, overlong, tail, discarded, called, diag, adapter, parsed, answer,
    shown, order, sent, served>>

\* setup(): the globals are zero, cmd_cnt = 0; loop() has not run; the serial
\* input is one of I
Start(I) ==
  /\ wire \in I
  /\ due = IF wire = <<>> THEN 0 ELSE Head(wire)[2]
  /\ pc = "loop"
  /\ cmd = [k \in 0..(CMD_BUF_LEN - 1) |-> 0]
  /\ cmd_cnt = 0
  /\ elapsed = 0
  /\ len = -1
  /\ paraAddr = -1
  /\ records = [k \in 0..6 |-> 0]
  /\ buf = <<>>
  /\ fed = <<>>
  /\ gapSeen = -1
  /\ overlong = FALSE
  /\ tail = FALSE
  /\ discarded = FALSE
  /\ called = <<>>
  /\ diag = <<>>
  /\ adapter = <<>>
  /\ parsed = <<>>
  /\ answer = <<>>
  /\ shown = <<>>
  /\ order = <<>>
  /\ sent = [k \in 1..Len(wire) |-> wire[k][1]]
  /\ served = <<>>

Init == Start(Inputs)

(***************************************************************************)
(* receiveCMD                                                              *)
(***************************************************************************)
\* the test  ret > 0  on what Serial.read() returned
Accepted(ret) == ret > 0

\* a test that lets one more time unit pass
TimedOutLate(e) == e > Timeout + 1

\* a receiveCMD with no idle limit
TimedOutNever(e) == FALSE

\* the test  millis() - start_millis > 100
TimedOut(e) == e > Timeout

\* a test that lets the cursor pass the end of cmd
BufferFullLate(cnt) == cnt = CMD_BUF_LEN + 1

\* the test  cmd_cnt == CMD_BUF_LEN  after cmd_cnt++
BufferFull(cnt) == cnt = CMD_BUF_LEN

\* loop() calls receiveCMD: start_millis = millis()
LoopBegin ==
  /\ pc = "loop"
  /\ pc' = "recv"
  /\ elapsed' = 0
  /\ fed' = <<>>
  /\ gapSeen' = -1
  /\ tail' = FALSE
  /\ called' = <<>>
  /\ diag' = <<>>
  /\ adapter' = <<>>
  /\ parsed' = <<>>
  /\ answer' = <<>>
  /\ shown' = <<>>
  /\ order' = <<>>
  /\ UNCHANGED <<wire, due, cmd, cmd_cnt, len, paraAddr, records, buf, overlong,
                 discarded, sent, served>>

\* time passes while receiveCMD spins: up to the arrival of the next byte or
\* to the first moment past the idle limit, whichever is first
Tick ==
  /\ pc = "recv"
  /\ elapsed <= Timeout
  /\ wire = <<>> \/ due > 0
  /\ LET toLimit == Timeout + 1 - elapsed
         d == IF wire /= <<>> /\ due < toLimit THEN due ELSE toLimit
     IN /\ elapsed' = elapsed + d
        /\ due' = IF wire = <<>> THEN 0 ELSE due - d
  /\ UNCHANGED <<wire, pc, cmd, cmd_cnt, len, paraAddr, records, buf, fed,
                 gapSeen, overlong, tail, discarded, called, diag, adapter,
                 parsed, answer, shown, order, sent, served>>

\* one pass of the while(1) of receiveCMD.  Serial.read() gives the next
\* byte when it has arrived (or -1 when the read comes just before it).
ReceiveStep ==
  /\ pc = "recv"
  /\ \E avail \in (IF wire /= <<>> /\ due = 0 THEN BOOLEAN ELSE {FALSE}) :
       LET ret == IF avail THEN Head(wire)[1] ELSE -1
           rest == IF avail THEN Tail(wire) ELSE wire
       IN /\ wire' = rest
          /\ due' = IF avail THEN (IF rest = <<>> THEN 0 ELSE Head(rest)[2]) ELSE due
          /\ fed' = IF avail THEN Append(fed, ret) ELSE fed
          /\ IF Accepted(ret)
             THEN /\ cmd' = [cmd EXCEPT ![cmd_cnt] = U8(ret)]
                  /\ elapsed' = 0
                  /\ discarded' = discarded
                  /\ IF U8(ret) = LF
                     THEN /\ len' = cmd_cnt + 1
                          /\ cmd_cnt' = 0
                          /\ pc' = "dispatch"
                          /\ tail' = overlong
                          /\ overlong' = FALSE
                          /\ gapSeen' = gapSeen
                     ELSE IF BufferFull(U8(cmd_cnt + 1))
                     THEN /\ len' = -1
                          /\ cmd_cnt' = 0
                          /\ pc' = "dispatch"
                          /\ tail' = tail
                          /\ overlong' = TRUE
                          /\ gapSeen' = gapSeen
                     ELSE /\ len' = len
                          /\ cmd_cnt' = U8(cmd_cnt + 1)
                          /\ pc' = "recv"
                          /\ tail' = tail
                          /\ overlong' = overlong
                          /\ gapSeen' = 0
             ELSE /\ cmd' = cmd
                  /\ elapsed' = elapsed
                  /\ gapSeen' = elapsed
                  /\ tail' = tail
                  /\ overlong' = overlong
                  /\ IF TimedOut(elapsed)
                     THEN /\ len' = -1
                          /\ cmd_cnt' = 0
                          /\ pc' = "dispatch"
                          /\ discarded' = (discarded \/ cmd_cnt > 0)
                     ELSE /\ len' = len
                          /\ cmd_cnt' = cmd_cnt
                          /\ pc' = "recv"
                          /\ discarded' = discarded
  /\ order' = IF pc' = "recv" THEN order ELSE Append(order, "receiveCMD")
  /\ served' = IF len' > 0 /\ pc' = "dispatch"
                THEN Append(served, Len(sent) - Len(wire'))
                ELSE served
  /\ UNCHANGED <<paraAddr, records, buf, called, diag, adapter, parsed, answer,
                 shown, sent>>

(***************************************************************************)
(* loop(): the command part and the recognition poll                       *)
(***************************************************************************)
\* a cycle's history with no handler called
NoCall(r) == r @@ [called |-> <<>>]

\* the call  cmdFunction[i](len, paraNum)  returned h
Invoked(i, paraNum, h) ==
  [h EXCEPT !.diag = IF h.ret /= 0 THEN Append(h.diag, "Command Format Error!")
                     ELSE h.diag]
  @@ [called |-> << <<i, len, paraNum>> >>]

\* the for loop over the command table, M the entries that match
Selected(rep, paraNum, f, M) ==
  IF M /= {}
  THEN Invoked(Least(M), paraNum,
               Handler(Least(M), cmd, len, paraNum,
                       [records |-> records, paraAddr |-> f.addr, buf |-> buf],
                       rep))
  ELSE NoCall(Result(0, records, f.addr, buf, <<>>, <<"Unkonwn command">>, <<>>))

\* paraLen = findPara(len, 1, &paraAddr) gave f
Looked(rep, paraNum, f) == Selected(rep, paraNum, f, Matches(cmd, f.addr, f.len))

\* the body of  if(len>0){ ... }  of loop(), with rep the reply of the
\* adapter operation the handler delegates to: the globals and the history
\* after it
Dispatched(rep) ==
  IF len > 0
  THEN IF checkCMD(cmd, len) = 0
       THEN Looked(rep, checkParaNum(cmd, len), findPara(cmd, len, 1, paraAddr))
       ELSE NoCall(Result(0, records, paraAddr, buf, <<>>,
                          <<"Command format error">>, <<>>))
  ELSE NoCall(Result(0, records, paraAddr, buf, <<>>, <<>>, <<>>))

Dispatch ==
  /\ pc = "dispatch"
  /\ \E rep \in Replies : \E d \in {Dispatched(rep)} :
          /\ records' = d.records
          /\ paraAddr' = d.paraAddr
          /\ buf' = d.buf
          /\ called' = d.called
          /\ diag' = d.diag
          /\ adapter' = d.adapter
          /\ parsed' = d.parsed
          /\ answer' = IF d.adapter = <<>> THEN <<>> ELSE <<rep.ret>>
          /\ shown' = Shown(d, rep)
          /\ order' = IF d.called = <<>> THEN order ELSE Append(order, "handler")
  /\ pc' = "poll"
  /\ UNCHANGED <<wire, due, cmd, cmd_cnt, elapsed, len, fed, gapSeen, overlong,
                 tail, discarded, sent, served>>

\* a poll that also runs while receiveCMD is assembling a line
RecognizeInFlight ==
  /\ pc \in {"recv", "poll"}
  /\ \E rep \in Replies :
       /\ buf' = Overlay(buf, rep.data)
       /\ shown' = IF rep.ret > 0 THEN Append(shown, printVR(buf')) ELSE shown
  /\ order' = Append(order, "recognize")
  /\ pc' = IF pc = "poll" THEN "loop" ELSE pc
  /\ UNCHANGED <<wire, due, cmd, cmd_cnt, elapsed, len, paraAddr, records, fed,
                 gapSeen, overlong, tail, discarded, called, diag, adapter,
                 parsed, answer, sent, served>>

\* ret = myVR.recognize(buf, 50): the poll that ends loop(); printVR(buf)
\* when it returned more than 0
Recognize ==
  /\ pc = "poll"
  /\ \E rep \in Replies :
       /\ buf' = Overlay(buf, rep.data)
       /\ shown' = IF rep.ret > 0 THEN Append(shown, printVR(buf')) ELSE shown
  /\ order' = Append(order, "recognize")
  /\ pc' = "loop"
  /\ UNCHANGED <<wire, due, cmd, cmd_cnt, elapsed, len, paraAddr, records, fed,
                 gapSeen, overlong, tail, discarded, called, diag, adapter,
                 parsed, answer, sent, served>>

Next == LoopBegin \/ Tick \/ ReceiveStep \/ Dispatch \/ Recognize

Spec == Init /\ [][Next]_vars

\* loop() is called again and again and each call runs on; millis() advances
\* while receiveCMD spins
LiveSpec ==
  /\ Start(Arrivals) /\ [][Next]_vars
  /\ WF_vars(LoopBegin) /\ WF_vars(Tick) /\ WF_vars(ReceiveStep)
  /\ WF_vars(Dispatch) /\ WF_vars(Recognize)

(***************************************************************************)
(* The two decoders of the group-mode tag, each applied to a reply that    *)
(* carries the same tag: recognize has written a reply with the tag in     *)
(* buf[0] and printVR decodes it; then checkRecognizer writes a reply with *)
(* that tag in buf[10] and printCheckRecognizer decodes it.                *)
(***************************************************************************)
DecodeInit ==
  /\ buf \in { <<t, 5, 0, 0>> : t \in 0..255 }
  /\ pc = "decode"
  /\ wire = <<>>
  /\ due = 0
  /\ cmd = [k \in 0..(CMD_BUF_LEN - 1) |-> 0]
  /\ cmd_cnt = 0
  /\ elapsed = 0
  /\ len = -1
  /\ paraAddr = -1
  /\ records = [k \in 0..6 |-> 0]
  /\ fed = <<>>
  /\ gapSeen = -1
  /\ overlong = FALSE
  /\ tail = FALSE
  /\ discarded = FALSE
  /\ called = <<>>
  /\ diag = <<>>
  /\ adapter = <<>>
  /\ parsed = <<>>
  /\ answer = <<>>
  /\ shown = <<>>
  /\ order = <<>>
  /\ sent = <<>>
  /\ served = <<>>

\* if(ret>0){ printVR(buf); }
DecodeVR ==
  /\ pc = "decode"
  /\ shown' = Append(shown, printVR(buf))
  /\ pc' = "decoded"
  /\ UNCHANGED <<wire, due, cmd, cmd_cnt, elapsed, len, paraAddr, records, buf,
                 fed, gapSeen, overlong, tail, discarded, called, diag, adapter,
                 parsed, answer, order, sent, served>>

\* ret = myVR.checkRecognizer(buf); ... printCheckRecognizer(buf);
DecodeCheckRecognizer ==
  /\ pc = "decoded"
  /\ buf' = <<1, 5, 255, 255, 255, 255, 255, 255, 1, 1, buf[1]>>
  /\ shown' = Append(shown, printCheckRecognizer(buf'))
  /\ pc' = "done"
  /\ UNCHANGED <<wire, due, cmd, cmd_cnt, elapsed, len, paraAddr, records, fed,
                 gapSeen, overlong, tail, discarded, called, diag, adapter,
                 parsed, answer, order, sent, served>>

DecodeNext == DecodeVR \/ DecodeCheckRecognizer

DecodeSpec == DecodeInit /\ [][DecodeNext]_vars

(***************************************************************************)
(* Reference notions the properties are stated with                        *)
(***************************************************************************)
\* the line receiveCMD returned, while cmd still holds it
Line == Span(cmd, 0, len)

\* a cycle whose receiveCMD returned a line has run its command part
LineDone == pc = "poll" /\ len > 0

Has(s, x) == \E k \in 1..Len(s) : s[k] = x

\* the character set of a command line: 0x20..0x7E, tab, CR, LF
Legal(b) == (b >= 32 /\ b <= 126) \/ b \in {TAB, CR, LF}

\* the tokens of a line: its maximal runs of bytes other than tab, space,
\* CR and LF, each as <<offset, length>>, in order
RECURSIVE Runs(_, _, _, _)
Runs(s, k, start, acc) ==
  IF k > Len(s)
  THEN IF start > 0 THEN Append(acc, <<start - 1, k - start>>) ELSE acc
  ELSE IF s[k] \in {TAB, SPACE, CR, LF}
       THEN Runs(s, k + 1, 0,
                 IF start > 0 THEN Append(acc, <<start - 1, k - start>>) ELSE acc)
       ELSE Runs(s, k + 1, IF start > 0 THEN start ELSE k, acc)

Tokens(s) == Runs(s, 1, 0, <<>>)

\* the bytes of token i of the line s
TokenText(s, i) == SubSeq(s, Tokens(s)[i][1] + 1, Tokens(s)[i][1] + Tokens(s)[i][2])

Lower(s) == [k \in 1..Len(s) |-> IF s[k] >= 65 /\ s[k] <= 90 THEN s[k] + 32 ELSE s[k]]

\* the RecordId parsing rule on a token: it fails when the token
\* decimal-parses to 0 and does not start with the character 0
FailsRule(tok) == atoi(tok) = 0 /\ tok[1] /= ZERO

ValidRecordId(tok) == ~FailsRule(tok) /\ atoi(tok) >= 0 /\ atoi(tok) <= 255

\* paraNum is outside the arity of command w
ArityBad(w, n) ==
  CASE w \in {1, 2} -> n < 2 \/ n > 8
    [] w \in {3, 4} -> n /= 1
    [] w = 5 -> n > 8
    [] w = 6 -> n < 2
    [] w = 7 -> n /= 2
    [] OTHER -> FALSE

\* the indices of the tokens command w reads as RecordIds, of n tokens
RecordArgs(w, n) ==
  CASE w \in {1, 2, 5} -> 2..n
    [] w \in {6, 7} -> {2}
    [] OTHER -> {}

FormatError == "Command Format Error!"

(***************************************************************************)
(* C1..C10                                                                 *)
(***************************************************************************)

\* C1: the case of the command word never affects dispatch: a line whose
\* first token is an upper/lower-case variant of vocabulary word w has
\* handler w called with the line's length and token count, as the
\* all-lowercase spelling has, and is not reported as an unknown command.
C1_CaseNeverAffectsDispatch ==
  (LineDone /\ checkCMD(cmd, len) = 0 /\ Len(Tokens(Line)) >= 1) =>
    \A w \in 1..CMD_NUM :
      Lower(TokenText(Line, 1)) = cmdList[w] =>
        /\ called = << <<w, len, Len(Tokens(Line))>> >>
        /\ ~Has(diag, "Unkonwn command")

\* C2: a byte sequence whose only '\n' is its last byte, read by one call of
\* receiveCMD with no timeout between its bytes, is returned as one line
\* whose length is the number of bytes read and whose content in
\* cmd[0..len) is the bytes read, terminator included.
C2_LineIsTheBytesRead ==
  (pc = "dispatch" /\ len > 0) => (len = Len(fed) /\ Line = fed)

\* C3 as claimed: when the time since the last accepted byte, seen by the
\* timeout test of receiveCMD while a line is being assembled, is 100 or
\* more, receiveCMD has returned -1 and cmd_cnt is 0.
C3_TimeoutAtHundred ==
  (fed /= <<>> /\ gapSeen >= Timeout) =>
    (pc /= "recv" /\ len = -1 /\ cmd_cnt = 0)

NonZero(b) == b > 0

\* C3 as amended: when that time is more than 100, receiveCMD has returned
\* -1 and cmd_cnt is 0; and the bytes a call of receiveCMD has accepted are
\* cmd[0..cmd_cnt), so that the bytes after a timeout start at cmd[0].
C3_TimeoutPastHundred ==
  /\ gapSeen > Timeout => (pc /= "recv" /\ len = -1 /\ cmd_cnt = 0)
  /\ pc = "recv" =>
       /\ cmd_cnt = Len(SelectSeq(fed, NonZero))
       /\ Span(cmd, 0, cmd_cnt) = SelectSeq(fed, NonZero)

\* a timeout has just dropped the bytes assembled so far, with more to come
C3_Witness ==
  /\ pc = "dispatch" /\ gapSeen > Timeout /\ len = -1 /\ cmd_cnt = 0
  /\ SelectSeq(fed, NonZero) /= <<>>
  /\ wire /= <<>>

\* C4: when more than 64 bytes arrive with no terminator, receiveCMD returns
\* -1 with cmd_cnt 0, and nothing of that input is dispatched: for the line
\* its tail makes once a '\n' arrives, no handler is called, no adapter
\* operation runs and no unknown-command or format error is reported.
C4_OverlongInputNotDispatched ==
  /\ (pc = "dispatch" /\ overlong) => (len = -1 /\ cmd_cnt = 0)
  /\ (pc = "poll" /\ tail) =>
       /\ called = <<>>
       /\ adapter = <<>>
       /\ ~Has(diag, "Unkonwn command")
       /\ ~Has(diag, FormatError)

\* C5: a line sent with a byte outside {0x20..0x7E, tab, CR, LF} anywhere
\* in it is classified malformed, and no handler or adapter operation is
\* called for it.
C5_IllegalByteInvalidatesLine ==
  (LineDone /\ \E k \in 1..Len(fed) : ~Legal(fed[k])) =>
    /\ diag = <<"Command format error">>
    /\ called = <<>>
    /\ adapter = <<>>

\* C6: on every assembled line, findPara gives, for each index i from 1 to
\* checkParaNum(len), the offset and the length (at least 1) of the i-th
\* token, and -1 for each index above checkParaNum(len); it never gives a
\* token of length 0.
C6_CountAndNthTokenAgree ==
  (pc \in {"dispatch", "poll"} /\ len > 0) =>
    \A i \in 1..(checkParaNum(cmd, len) + 2) :
      IF i <= checkParaNum(cmd, len)
      THEN /\ i <= Len(Tokens(Line))
           /\ findPara(cmd, len, i, -1).len >= 1
           /\ <<findPara(cmd, len, i, -1).addr, findPara(cmd, len, i, -1).len>>
                = Tokens(Line)[i]
      ELSE findPara(cmd, len, i, -1).len = -1

\* C7: validation precedes delegation: when the token count is outside the
\* arity of the command called, or a token it reads as a RecordId fails the
\* parsing rule, the format error is reported and no adapter operation is
\* called for the line.
C7_ValidationPrecedesDelegation ==
  (LineDone /\ called /= <<>>) =>
    ((\/ ArityBad(called[1][1], Len(Tokens(Line)))
      \/ \E i \in RecordArgs(called[1][1], Len(Tokens(Line))) :
           FailsRule(TokenText(Line, i)))
     => (Has(diag, FormatError) /\ adapter = <<>>))

\* C8: for a train or load line of 2 to 8 tokens whose argument tokens are
\* all valid RecordIds, the handler calls train (load) exactly once, with
\* the values of tokens 2..paraNum in their order on the line.
C8_TrainLoadRecordsInOrder ==
  (/\ LineDone /\ called /= <<>>
   /\ called[1][1] \in {1, 2}
   /\ called[1][3] = Len(Tokens(Line))
   /\ called[1][3] >= 2 /\ called[1][3] <= 8
   /\ \A i \in 2..called[1][3] : ValidRecordId(TokenText(Line, i)))
  => adapter =
       << Call(IF called[1][1] = 1 THEN "train" ELSE "load",
               [k \in 1..(called[1][3] - 1) |-> atoi(TokenText(Line, k + 1))],
               -1, 0) >>

\* C9: RecordId parsing round-trips: a token that is the decimal text of a
\* value v in 0..254 is accepted and parses to v; the tokens 0 and 00 are
\* accepted and parse to 0; a token that decimal-parses to 0 and does not
\* start with the character 0 is rejected.
C9_RecordIdRoundTrip ==
  \A k \in 1..Len(parsed) :
    parsed[k].n >= 1 =>
      /\ \A v \in 0..254 :
           Span(cmd, parsed[k].off, parsed[k].n) = Decimal(v)
             => (parsed[k].ok /\ parsed[k].val = v)
      /\ Span(cmd, parsed[k].off, parsed[k].n) \in {<<ZERO>>, <<ZERO, ZERO>>}
           => (parsed[k].ok /\ parsed[k].val = 0)
      /\ FailsRule(Span(cmd, parsed[k].off, parsed[k].n)) => ~parsed[k].ok

\* getsig has parsed the decimal text of 254 to 254 and passed it on
C9_Witness ==
  /\ parsed /= <<>>
  /\ Span(cmd, parsed[1].off, parsed[1].n) = Decimal(254)
  /\ parsed[1].ok /\ parsed[1].val = 254
  /\ Has(adapter, Call("checkSignature", <<254>>, -1, 0))

\* C10: the format error is reported only for a wrong arity or an argument
\* that fails validation: never for a line whose adapter operation was
\* called (and failed).
C10_FormatErrorOnlyForFormat ==
  (LineDone /\ Has(diag, FormatError)) =>
    /\ called /= <<>>
    /\ adapter = <<>>
    /\ \/ ArityBad(called[1][1], called[1][3])
       \/ \E k \in 1..Len(parsed) : ~parsed[k].ok

(***************************************************************************)
(* Reference notions of C11..C20                                           *)
(***************************************************************************)
\* the diagnostics that report a failed Device Adapter operation
DelegateErrors ==
  {"Train failed.", "Load failed.", "Check record failed.", "Get sig error."}

\* the part of a line the tokenizer is specified to scan: the bytes before
\* its first CR or LF
Scanned(s) == SubSeq(s, 1, Least({k \in 1..Len(s) : s[k] \in {CR, LF}}) - 1)

\* the line has a first token and it is a vocabulary word
FirstIsWord(s) ==
  /\ Len(Tokens(Scanned(s))) >= 1
  /\ \E w \in 1..CMD_NUM : cmdList[w] = TokenText(Scanned(s), 1)

\* the table entry of the first token of such a line
WordOf(s) == Least({w \in 1..CMD_NUM : cmdList[w] = TokenText(Scanned(s), 1)})

(***************************************************************************)
(* C11..C20                                                                *)
(***************************************************************************)

\* C11: whenever the Device Adapter operation a handler delegated to has
\* failed (returned a negative value), one of the delegate-error diagnostics
\* is reported for that line, whichever the command (clear included); the
\* loop is not stopped: the cycle goes on to the recognition poll and ends
\* with it, and a later line whose first token is a vocabulary word is
\* dispatched to a handler.
C11_DelegateFailureReported ==
  /\ pc \in {"loop", "recv", "dispatch", "poll"}
  /\ (LineDone /\ answer /= <<>> /\ answer[1] < 0) =>
       \E k \in 1..Len(diag) : diag[k] \in DelegateErrors
  /\ (pc = "loop" /\ order /= <<>>) => order[Len(order)] = "recognize"
  /\ (LineDone /\ checkCMD(cmd, len) = 0 /\ FirstIsWord(Line)) => called /= <<>>

\* the positions of the '\n' bytes of s, in order
RECURSIVE TerminatorsFrom(_, _)
TerminatorsFrom(s, k) ==
  IF k > Len(s) THEN <<>>
  ELSE (IF s[k] = LF THEN <<k>> ELSE <<>>) \o TerminatorsFrom(s, k + 1)

Terminators(s) == TerminatorsFrom(s, 1)

\* the last n elements of s
LastOf(s, n) == SubSeq(s, Len(s) - n + 1, Len(s))

\* C12: commands are processed one at a time in arrival order and the
\* recognition poll never preempts one: in every cycle the calls of loop()
\* are receiveCMD, then at most one handler, then recognize, and nothing is
\* called while receiveCMD runs; the lines receiveCMD has returned are those
\* of the '\n' bytes of the input, in the order of their arrival; and the
\* line dispatched in a cycle is the one that ends at the last '\n' read.
C12_OneAtATimeInOrder ==
  /\ order \in { <<>>, <<"receiveCMD">>, <<"receiveCMD", "handler">>,
                 <<"receiveCMD", "recognize">>,
                 <<"receiveCMD", "handler", "recognize">> }
  /\ pc = "recv" => order = <<>>
  /\ Len(called) <= 1
  /\ Len(served) <= Len(Terminators(sent))
  /\ served = SubSeq(Terminators(sent), 1, Len(served))
  /\ (pc \in {"dispatch", "poll"} /\ len > 0) =>
       /\ served /= <<>>
       /\ served[Len(served)] = Len(sent) - Len(wire)
       /\ Line = LastOf(SelectSeq(SubSeq(sent, 1, served[Len(served)]), NonZero), len)

\* the second line of an input has been dispatched to its handler, after
\* the first, and the poll of the cycle has not run yet
C12_Witness ==
  /\ pc = "poll" /\ len > 0
  /\ Len(served) = 2
  /\ called /= <<>>
  /\ order = <<"receiveCMD", "handler">>

\* C13: for a sigtrain line of N >= 3 tokens whose token 2 is a valid
\* RecordId, trainWithSignature is called once, with the value of token 2
\* and the span of cmd from the first byte of token 3 to the last byte of
\* token N: length = offset of token N + length of token N - offset of
\* token 3.
C13_SignatureSpan ==
  (/\ LineDone /\ called /= <<>>
   /\ called[1][1] = 6
   /\ Len(Tokens(Line)) >= 3
   /\ ValidRecordId(TokenText(Line, 2)))
  => adapter =
       << Call("trainWithSignature", <<atoi(TokenText(Line, 2))>>,
               Tokens(Line)[3][1],
               Tokens(Line)[Len(Tokens(Line))][1] + Tokens(Line)[Len(Tokens(Line))][2]
                 - Tokens(Line)[3][1]) >>

TrainStatusNames ==
  (0 :> "Trained") @@ (254 :> "Train Time Out") @@ (255 :> "Value out of range")

LoadStatusNames ==
  (0 :> "Loaded") @@ (252 :> "Record already in recognizer")
  @@ (253 :> "Recognizer full") @@ (254 :> "Record untrained")
  @@ (255 :> "Value out of range")

\* the pair k of a reply b, read with the status names of names
PairOf(b, k, names) ==
  <<Byte(b, 2 * k - 1),
    IF Byte(b, 2 * k) \in DOMAIN names THEN names[Byte(b, 2 * k)]
    ELSE "Unknown status">>

\* a train or load handler has decoded the reply of its adapter call
TrainLoadDecoded ==
  /\ LineDone /\ adapter /= <<>>
  /\ adapter[1].op \in {"train", "load"}
  /\ answer[1] >= 0

\* C15 as claimed: the decoder of a train or load reply of length 0
\* enumerates nothing; on a longer reply it takes byte 0 for the count N and
\* enumerates exactly N pairs, from bytes 1..2N, with the status names of
\* the operation.
C15_PairsByCount ==
  TrainLoadDecoded =>
    /\ Len(shown) = 1
    /\ IF answer[1] = 0 THEN shown[1].pairs = <<>>
       ELSE /\ shown[1].count = Byte(buf, 0)
            /\ shown[1].pairs =
                 [k \in 1..Byte(buf, 0) |->
                    PairOf(buf, k, IF adapter[1].op = "train" THEN TrainStatusNames
                                   ELSE LoadStatusNames)]

\* C15 as amended: on a reply of length len > 0 the decoder reports byte 0
\* as the count and enumerates the pairs (buf[i+1], buf[i+2]) for
\* i = 0, 2, .. below len-1, that is len div 2 pairs whatever byte 0 is,
\* with the status names of the operation and any other status as unknown;
\* a reply of length 0 enumerates nothing.
C15_PairsByLength ==
  TrainLoadDecoded =>
    /\ Len(shown) = 1
    /\ IF answer[1] = 0 THEN shown[1].pairs = <<>>
       ELSE /\ shown[1].count = Byte(buf, 0)
            /\ shown[1].pairs =
                 [k \in 1..(answer[1] \div 2) |->
                    PairOf(buf, k, IF adapter[1].op = "train" THEN TrainStatusNames
                                   ELSE LoadStatusNames)]

\* train has decoded the reply 02 05 00 07 FE to the count 2 and the pairs
\* (5, trained), (7, time out)
C15_Witness ==
  /\ TrainLoadDecoded
  /\ adapter[1].op = "train"
  /\ answer = <<5>>
  /\ SubSeq(buf, 1, 5) = <<2, 5, 0, 7, 254>>
  /\ shown = << [count |-> 2,
                 pairs |-> << <<5, "Trained">>, <<7, "Train Time Out">> >>] >>

\* the group mode a tag stands for: 0xFF no group; bit 7 set a user group
\* whose id is the low 7 bits; otherwise a system group whose id is the tag
GroupOfTag(t) ==
  IF t = 255 THEN [mode |-> "none", id |-> -1]
  ELSE IF t >= 128 THEN [mode |-> "user", id |-> t % 128]
  ELSE [mode |-> "system", id |-> t]

\* C16: for every tag 0x00..0xFF, printVR decodes the tag in byte 0 of a
\* recognize reply and printCheckRecognizer decodes the same tag in byte 10
\* of a checkRecognizer reply to the same group mode and id, the one the tag
\* stands for.
C16_GroupTagDecodedAlike ==
  /\ pc = "decoded" => shown[1].group = GroupOfTag(buf[1])
  /\ pc = "done" =>
       /\ shown[2].group = GroupOfTag(buf[11])
       /\ shown[1].group = shown[2].group

\* the tag 0x82 has been decoded by both to user group 2
C16_Witness ==
  /\ pc = "done"
  /\ buf[11] = 130
  /\ shown[1].group = [mode |-> "user", id |-> 2]
  /\ shown[2].group = [mode |-> "user", id |-> 2]

\* two bytes are equal or exactly 0x20 apart, in either direction
CaseBitApart(a, b) == a = b \/ a - b = 32 \/ b - a = 32

\* C17: compareCMD on two spans of the same length returns 0 exactly when,
\* at every index, the two bytes are equal or 0x20 apart in either
\* direction: for the first parameter of a line and every table entry of its
\* length.
C17_CompareModuloCaseBit ==
  (LineDone /\ checkCMD(cmd, len) = 0) =>
    \A w \in 1..CMD_NUM :
      cmdLen[w] = findPara(cmd, len, 1, -1).len =>
        ((compareCMD(Span(cmd, findPara(cmd, len, 1, -1).addr, cmdLen[w]),
                     cmdList[w], cmdLen[w]) = 0)
         <=> \A k \in 1..cmdLen[w] :
               CaseBitApart(cmd[findPara(cmd, len, 1, -1).addr + k - 1], cmdList[w][k]))

\* C18: checkParaNum returns the number of maximal runs of bytes other than
\* tab and space that lie before the first CR or LF of the line: CR and LF
\* end the scan, and bytes after a CR are not counted.
C18_CountStopsAtLineEnd ==
  (pc \in {"dispatch", "poll"} /\ len > 0) =>
    checkParaNum(cmd, len) = Len(Tokens(Scanned(Line)))

\* C19: every RecordId a handler passes to an adapter operation is in
\* 0..255 and is the decimal value of the token it was parsed from: a token
\* whose value is above 255 is never passed on as that value modulo 256.
C19_RecordIdNeverWrapped ==
  (LineDone /\ adapter /= <<>>) =>
    /\ \A k \in 1..Len(adapter[1].recs) : adapter[1].recs[k] \in 0..255
    /\ \A k \in 1..Len(parsed) :
         parsed[k].n >= 1 =>
           parsed[k].val = atoi(Span(cmd, parsed[k].off, parsed[k].n))

\* C20: every call of receiveCMD returns, given that time advances, and the
\* recognition poll of its cycle is reached; it returns a line on a '\n',
\* -1 after CMD_BUF_LEN accepted bytes with no '\n', or -1 once more than
\* 100 time units have passed since the last accepted byte.
C20_ReceiveReturns ==
  /\ [](pc = "dispatch" =>
          \/ len > 0 /\ cmd[len - 1] = LF /\ fed[Len(fed)] = LF
          \/ len = -1 /\ Len(SelectSeq(fed, NonZero)) = CMD_BUF_LEN
          \/ len = -1 /\ gapSeen > Timeout)
  /\ (pc = "recv") ~> (pc = "dispatch")
  /\ (pc = "recv") ~> (pc = "poll")

\* receiveCMD has returned on its idle limit in the middle of a stream of
\* 0x00 bytes
C20_Witness ==
  /\ pc = "dispatch" /\ len = -1 /\ gapSeen > Timeout
  /\ fed /= <<>>
  /\ \A k \in 1..Len(fed) : fed[k] = 0
  /\ wire /= <<>>

(***************************************************************************)
(* C21..C22                                                                *)
(***************************************************************************)

\* C21: the write index cmd_cnt is always in 0..64, inside cmd; cmd_cnt is 0
\* whenever receiveCMD is not running, so on each of its three return paths
\* and at the start of every cycle; and what receiveCMD returned is -1 or a
\* length in 1..65.
C21_CursorInBuffer ==
  /\ DOMAIN cmd = 0..(CMD_BUF_LEN - 1)
  /\ cmd_cnt \in 0..(CMD_BUF_LEN - 1)
  /\ pc /= "recv" => cmd_cnt = 0
  /\ pc \in {"dispatch", "poll"} => (len = -1 \/ len \in 1..CMD_BUF_LEN)
  /\ (pc = "dispatch" /\ len > 0) => Len(SelectSeq(fed, NonZero)) = len

\* receiveCMD has returned a line that fills cmd, through index 64
C21_Witness ==
  /\ pc = "dispatch"
  /\ len = CMD_BUF_LEN
  /\ cmd[CMD_BUF_LEN - 1] = LF
  /\ cmd_cnt = 0

\* C22: for every sigtrain line that reaches delegation, the signature
\* length passed to trainWithSignature is at least 0, and the span it
\* names lies inside the assembled line and holds no CR or LF byte.
C22_SignatureSpanInLine ==
  (LineDone /\ called /= <<>> /\ called[1][1] = 6 /\ adapter /= <<>>) =>
    /\ adapter[1].n >= 0
    /\ adapter[1].off >= 0
    /\ adapter[1].off + adapter[1].n <= len
    /\ \A k \in adapter[1].off..(adapter[1].off + adapter[1].n - 1) :
         cmd[k] \notin {CR, LF}

====
